---------------------------- MODULE Spec2Model ----------------------------
(***************************************************************************)
(* Model of the notification pipeline of distributed-notification-system:  *)
(* the circuit breaker (api-gateway utils/circuit-breaker), the gateway's  *)
(* submit and bulk-submit handlers, the broker publish path, the redis     *)
(* status/idempotency store, the consumers of the email and the push       *)
(* service, the RetryService they share, and the broker connection of each *)
(* service: its loss, close() and the connect() calls scheduled after it.  *)
(*                                                                         *)
(* JavaScript is single threaded: a handler runs without interruption      *)
(* between two awaits, so every action below is one such run-to-await      *)
(* segment of the code.                                                    *)
(***************************************************************************)
EXTENDS Integers, Sequences, FiniteSets, TLC

(***************************************************************************)
(* Program constants (milliseconds, counts).                               *)
(***************************************************************************)
failure_threshold == 5
success_threshold == 2
timeout == 60000
reset_timeout == 30000
\* RetryService
max_retries == 3
base_delay == 1000

(***************************************************************************)
(* Bounds of the model.                                                    *)
(***************************************************************************)
\* the clock advances in steps of TimeStep ms, MaxTicks times at most
TimeStep == 30000
MaxTicks == 2
\* concurrent callers of execute() in the circuit-breaker specification
MaxCalls == 2
\* no new guarded call is started once the failure counter reached this
MaxFailures == 6
\* concurrent requests to the single-notification endpoint
MaxHandlers == 2
\* notifications in one bulk request
MaxBulk == 2
\* messages waiting on the broker's queues, all queues together
MaxQueue == 2
\* notification ids (uuidv4) alive at the same time
MaxIds == 2
\* retries scheduled and not yet republished
MaxTimers == 1
\* messages waiting on the queues when a retry timer or another publisher adds one
MaxBacklog == 1
\* the retry_count of the messages a RetryService function is called with
MaxRetryArg == 5

Calls == 1..MaxCalls
Names == {"rabbitmq"}
NoCircuit == [state |-> "NONE", failures |-> 0, successes |-> 0, next_attempt |-> 0]
IdleCall == [pc |-> "idle", fb |-> FALSE, start |-> 0, gate |-> "NONE", res |-> "none"]
FailureResults == {"error", "timeout_error", "fallback"}

Handlers == 1..MaxHandlers
Users == {"u1"}
Templates == {"t1"}
RequestIds == {"r1"}
\* what a client may send as notification_type; "sms" stands for any other string
Channels == {"email", "push"}
Types == Channels \cup {"sms"}
Keys == Users \X Channels \X Templates \X RequestIds
Items == [user_id : Users, notification_type : Types, template_code : Templates,
          request_id : RequestIds]
NoData == [notification_id |-> 0, request_id |-> "none", status |-> "none",
           notification_type |-> "none"]
NoItem == [user_id |-> "none", notification_type |-> "none", template_code |-> "none",
           request_id |-> "none"]
IdleHandler == [pc |-> "idle", req |-> NoItem, nid |-> 0, pub |-> "none", code |-> 0,
                data |-> NoData]
IdleBulk == [pc |-> "idle", items |-> <<>>, cur |-> NoData, pub |-> "none",
             results |-> <<>>, code |-> 0]

\* bodies on a queue that did not come from the gateway: one that is no JSON,
\* the JSON text null, and a notification without a retry_count
Garbage == [notification_id |-> 0, request_id |-> "none", user_id |-> "none",
            notification_type |-> "unparseable", recipient |-> "none",
            template_code |-> "none", retry_count |-> 0]
NullBody == [notification_id |-> 0, request_id |-> "none", user_id |-> "none",
             notification_type |-> "null", recipient |-> "none",
             template_code |-> "none", retry_count |-> 0]
Uncounted(rid, type) ==
    [notification_id |-> 0, request_id |-> rid, user_id |-> "u1",
     notification_type |-> type, recipient |-> "addr", template_code |-> "t1"]
\* a notification whose retries are used up
Exhausted(rid, type) ==
    [notification_id |-> 0, request_id |-> rid, user_id |-> "u1",
     notification_type |-> type, recipient |-> "addr", template_code |-> "t1",
     retry_count |-> max_retries]
ForeignBodies(rk) == {Garbage, NullBody} \cup {Uncounted(rid, rk) : rid \in RequestIds}
NoMsg == [notification_id |-> 0, request_id |-> "none", user_id |-> "none",
          notification_type |-> "none", recipient |-> "none", template_code |-> "none",
          retry_count |-> 0]
\* a consumer between two messages.  The fields from invoked to wrote record
\* what has been done for the message at hand; answer, answers and outcome
\* record how the last message ended
IdleWorker == [pc |-> "idle", msg |-> NoMsg, st |-> "none", ret |-> FALSE,
               invoked |-> FALSE, marked |-> FALSE, rendered |-> FALSE, tried |-> FALSE,
               sent |-> FALSE, consulted |-> FALSE, scheduled |-> 0, wrote |-> "none",
               answer |-> "none", answers |-> 0, outcome |-> "none"]
NoCall == [op |-> "none", arg |-> NoMsg, res |-> FALSE, after |-> NoMsg]
\* no status query has been answered
NoReply == [code |-> 0, by |-> "none", notification_id |-> 0, status |-> "none",
            error |-> FALSE, fields |-> {}]
\* a consumer service after connect() and start_consumer(): connected, its
\* channel is open and has the consumer of its queue, no connect() is scheduled,
\* close() has not been called and the process runs
Started == [connected |-> TRUE, consuming |-> TRUE, channel |-> "open", reconnect |-> 0,
            close |-> "no", running |-> TRUE]

VARIABLES
    now,        \* Date.now()
    circuits,   \* CircuitBreaker.circuits: name -> circuit (NoCircuit: not created yet)
    calls,      \* the execute() calls of generic concurrent callers
    consec,     \* history: failed calls completed since the last successful completion
    connected,  \* gateway RabbitMQService.connected
    queue,      \* the broker: routing key -> messages on the queue bound to it
    redis_notif,   \* redis: idempotency key "notif:..." -> stored notification_data
    redis_status,  \* redis: "status:<request_id>" -> stored notification_data
    handlers,   \* the running POST /api/v1/notifications/ requests
    bulk,       \* the running POST /api/v1/notifications/bulk/ request
    pub_count,  \* history: messages the single endpoint published, per idempotency key
    status_reply,  \* the last reply of GET /api/v1/notifications/:notification_id/status/
    redis_processed,  \* redis: "processed:<request_id>" is set
    workers,    \* the consumer of each queue: the message it is working on
    timers,     \* the pending setTimeout callbacks of RetryService.schedule_retry
    sent_count, \* history: successful deliveries, per request_id
    fn_call,    \* the last call of a RetryService function: argument and result
    rabbitmq_service  \* the RabbitMQService of each consumer service, by its queue

gwvars == <<connected, queue, redis_notif, redis_status, handlers, bulk, pub_count,
           status_reply>>
csvars == <<redis_processed, workers, timers, sent_count, fn_call, rabbitmq_service>>
vars == <<now, circuits, calls, consec, connected, queue, redis_notif, redis_status,
          handlers, bulk, pub_count, status_reply, redis_processed, workers, timers, sent_count,
          fn_call, rabbitmq_service>>

Min(a, b) == IF a < b THEN a ELSE b

(***************************************************************************)
(* CircuitBreaker                                                          *)
(***************************************************************************)
\* init_circuit(name): creates the circuit on first use, CLOSED, next_attempt = now
init_circuit(cs, name, t) ==
    IF cs[name] = NoCircuit
    THEN [cs EXCEPT ![name] = [state |-> "CLOSED", failures |-> 0, successes |-> 0,
                               next_attempt |-> t]]
    ELSE cs

\* execute, the gate: an OPEN circuit rejects the call while now < next_attempt
\* variant: the gate still rejects at now = next_attempt
ExecRejects_strict(c, t) ==
    c.state = "OPEN" /\ t <= c.next_attempt

ExecRejects(c, t) ==
    c.state = "OPEN" /\ t < c.next_attempt

\* execute, past the gate: an OPEN circuit whose next_attempt passed becomes HALF_OPEN
half_open(c) ==
    IF c.state = "OPEN"
    THEN [c EXCEPT !.state = "HALF_OPEN", !.successes = 0]
    ELSE c

\* variant: the circuit closes one success too late
on_success_late_close(c) ==
    IF c.state = "HALF_OPEN"
    THEN IF c.successes + 1 > success_threshold
         THEN [c EXCEPT !.state = "CLOSED", !.failures = 0, !.successes = 0]
         ELSE [c EXCEPT !.successes = c.successes + 1]
    ELSE [c EXCEPT !.failures = 0]

\* variant: a success outside HALF_OPEN leaves the failure count
on_success_no_reset(c) ==
    IF c.state = "HALF_OPEN"
    THEN IF c.successes + 1 >= success_threshold
         THEN [c EXCEPT !.state = "CLOSED", !.failures = 0, !.successes = 0]
         ELSE [c EXCEPT !.successes = c.successes + 1]
    ELSE c

\* variant: the circuit closes with the failures it had counted
on_success_keeps_failures(c) ==
    IF c.state = "HALF_OPEN"
    THEN IF c.successes + 1 >= success_threshold
         THEN [c EXCEPT !.state = "CLOSED", !.successes = 0]
         ELSE [c EXCEPT !.successes = c.successes + 1]
    ELSE [c EXCEPT !.failures = 0]

\* on_success: HALF_OPEN counts successes and closes at success_threshold;
\* in any other state the failure count is reset
on_success(c) ==
    IF c.state = "HALF_OPEN"
    THEN IF c.successes + 1 >= success_threshold
         THEN [c EXCEPT !.state = "CLOSED", !.failures = 0, !.successes = 0]
         ELSE [c EXCEPT !.successes = c.successes + 1]
    ELSE [c EXCEPT !.failures = 0]

\* variant: the circuit opens one failure too late
on_failure_late_open(c, t) ==
    IF c.failures + 1 > failure_threshold
    THEN [c EXCEPT !.failures = c.failures + 1, !.state = "OPEN",
                   !.next_attempt = t + reset_timeout]
    ELSE [c EXCEPT !.failures = c.failures + 1]

\* on_failure: the failure is counted; at failure_threshold the circuit opens
on_failure(c, t) ==
    IF c.failures + 1 >= failure_threshold
    THEN [c EXCEPT !.failures = c.failures + 1, !.state = "OPEN",
                   !.next_attempt = t + reset_timeout]
    ELSE [c EXCEPT !.failures = c.failures + 1]

\* what the caller gets when the guarded call failed: the fallback's result or the error
failure_result(fb, err) ==
    IF fb THEN "fallback" ELSE err

(***************************************************************************)
(* Generic callers of execute(name, fn, fallback) on one circuit.          *)
(***************************************************************************)
Circ == circuits["rabbitmq"]

\* execute up to its first await: the gate, then fn() is invoked
execute(k, fb) ==
    /\ calls[k].pc = "idle"
    /\ Circ.failures < MaxFailures
    /\ LET cs == init_circuit(circuits, "rabbitmq", now)
           c == cs["rabbitmq"]
       IN IF ExecRejects(c, now)
          THEN /\ circuits' = cs
               /\ calls' = [calls EXCEPT ![k] = [IdleCall EXCEPT !.pc = "done", !.fb = fb,
                                !.res = IF fb THEN "fallback" ELSE "err_open"]]
          ELSE /\ circuits' = [cs EXCEPT !["rabbitmq"] = half_open(c)]
               /\ calls' = [calls EXCEPT ![k] = [pc |-> "inflight", fb |-> fb, start |-> now,
                                gate |-> half_open(c).state, res |-> "none"]]
    /\ UNCHANGED <<now, consec>>
    /\ UNCHANGED <<gwvars, csvars>>

\* fn() resolves before the timer: execute continues with on_success
fn_resolves(k) ==
    /\ calls[k].pc = "inflight"
    /\ circuits' = [circuits EXCEPT !["rabbitmq"] = on_success(Circ)]
    /\ calls' = [calls EXCEPT ![k].pc = "done", ![k].res = "ok", ![k].start = 0]
    /\ consec' = 0
    /\ UNCHANGED now
    /\ UNCHANGED <<gwvars, csvars>>

\* fn() rejects before the timer: execute continues with on_failure
fn_rejects(k) ==
    /\ calls[k].pc = "inflight"
    /\ circuits' = [circuits EXCEPT !["rabbitmq"] = on_failure(Circ, now)]
    /\ calls' = [calls EXCEPT ![k].pc = "done", ![k].start = 0,
                              ![k].res = failure_result(calls[k].fb, "error")]
    /\ consec' = Min(consec + 1, failure_threshold)
    /\ UNCHANGED now
    /\ UNCHANGED <<gwvars, csvars>>

\* execute_with_timeout: the timer wins the race, fn() is still running
timeout_fires(k) ==
    /\ calls[k].pc = "inflight"
    /\ now >= calls[k].start + timeout
    /\ circuits' = [circuits EXCEPT !["rabbitmq"] = on_failure(Circ, now)]
    /\ calls' = [calls EXCEPT ![k].pc = "late", ![k].start = 0,
                              ![k].res = failure_result(calls[k].fb, "timeout_error")]
    /\ consec' = Min(consec + 1, failure_threshold)
    /\ UNCHANGED now
    /\ UNCHANGED <<gwvars, csvars>>

\* variant: a function settling after its timeout is counted as a success
late_counts_success(k) ==
    /\ calls[k].pc = "late"
    /\ calls' = [calls EXCEPT ![k].pc = "done"]
    /\ circuits' = [circuits EXCEPT !["rabbitmq"] = on_success(Circ)]
    /\ UNCHANGED <<now, consec>>
    /\ UNCHANGED <<gwvars, csvars>>

\* fn() settles after the race was decided by the timer: nobody listens any more
fn_settles_late(k) ==
    /\ calls[k].pc = "late"
    /\ calls' = [calls EXCEPT ![k].pc = "done"]
    /\ UNCHANGED <<now, circuits, consec>>
    /\ UNCHANGED <<gwvars, csvars>>

\* the caller has taken the result; the slot is free for the next call
call_returns(k) ==
    /\ calls[k].pc = "done"
    /\ calls' = [calls EXCEPT ![k] = IdleCall]
    /\ UNCHANGED <<now, circuits, consec>>
    /\ UNCHANGED <<gwvars, csvars>>

Tick ==
    /\ now + TimeStep <= MaxTicks * TimeStep
    /\ now' = now + TimeStep
    /\ UNCHANGED <<circuits, calls, consec>>
    /\ UNCHANGED <<gwvars, csvars>>

Init ==
    /\ now = 0
    /\ circuits = [n \in Names |-> NoCircuit]
    /\ calls = [k \in Calls |-> IdleCall]
    /\ consec = 0
    /\ connected = TRUE
    /\ queue = [rk \in Channels |-> <<>>]
    /\ redis_notif = [key \in Keys |-> NoData]
    /\ redis_status = [rid \in RequestIds |-> NoData]
    /\ handlers = [h \in Handlers |-> IdleHandler]
    /\ bulk = IdleBulk
    /\ pub_count = [key \in Keys |-> 0]
    /\ status_reply = NoReply
    /\ redis_processed = [rid \in RequestIds |-> FALSE]
    /\ workers = [ch \in Channels |-> IdleWorker]
    /\ timers = <<>>
    /\ sent_count = [rid \in RequestIds |-> 0]
    /\ fn_call = NoCall
    /\ rabbitmq_service = [ch \in Channels |-> Started]

NextCB ==
    \/ \E k \in Calls, fb \in BOOLEAN : execute(k, fb)
    \/ \E k \in Calls : fn_resolves(k)
    \/ \E k \in Calls : fn_rejects(k)
    \/ \E k \in Calls : timeout_fires(k)
    \/ \E k \in Calls : fn_settles_late(k)
    \/ \E k \in Calls : call_returns(k)
    \/ Tick

SpecCB == Init /\ [][NextCB]_vars

(***************************************************************************)
(* API gateway: RabbitMQService                                            *)
(***************************************************************************)
\* the 'error'/'close' events of the connection
connection_lost ==
    /\ connected
    /\ connected' = FALSE
    /\ UNCHANGED <<now, circuits, calls, consec, queue, redis_notif, redis_status,
                   handlers, bulk, pub_count>>
    /\ UNCHANGED <<csvars, status_reply>>

\* connect(), run again 5 s after the connection closed, succeeds
reconnect ==
    /\ ~connected
    /\ connected' = TRUE
    /\ UNCHANGED <<now, circuits, calls, consec, queue, redis_notif, redis_status,
                   handlers, bulk, pub_count>>
    /\ UNCHANGED <<csvars, status_reply>>

\* publish: throws before touching the channel when not connected; otherwise
\* channel.publish hands the message to the broker, and a false return value
\* (write buffer full) is thrown as an error as well
publish_result(conn, accepted) ==
    IF conn /\ accepted THEN "ok" ELSE "fail"

publish_queue(q, conn, routing_key, message) ==
    IF conn THEN [q EXCEPT ![routing_key] = Append(@, message)] ELSE q

TotalQueued == Len(queue["email"]) + Len(queue["push"])

(***************************************************************************)
(* API gateway: notification ids (uuidv4)                                  *)
(***************************************************************************)
UsedIds ==
    {queue[rk][i].notification_id : <<rk, i>> \in {x \in Channels \X (1..TotalQueued) :
                                                      x[2] <= Len(queue[x[1]])}}
    \cup {redis_notif[key].notification_id : key \in Keys}
    \cup {redis_status[rid].notification_id : rid \in RequestIds}
    \cup {handlers[h].nid : h \in Handlers}
    \cup {handlers[h].data.notification_id : h \in Handlers}
    \cup {bulk.cur.notification_id}
    \cup {bulk.results[i].notification_id : i \in 1..Len(bulk.results)}
    \cup {workers[ch].msg.notification_id : ch \in Channels}
    \cup {timers[i].msg.notification_id : i \in 1..Len(timers)}
FreeIds == (1..MaxIds) \ UsedIds
\* uuidv4(): an id nobody holds
uuidv4 == CHOOSE i \in FreeIds : \A j \in FreeIds : i <= j

(***************************************************************************)
(* API gateway: POST /api/v1/notifications/                                *)
(***************************************************************************)
idempotency_key(req) ==
    <<req.user_id, req.notification_type, req.template_code, req.request_id>>

routing_key(notification_type) ==
    IF notification_type = "email" THEN "email" ELSE "push"

Reply(code, data) ==
    [IdleHandler EXCEPT !.pc = "done", !.code = code, !.data = data]

\* the request arrives: notification_type is validated, then redis.get is awaited
submit(h, req) ==
    /\ handlers[h].pc = "idle"
    /\ handlers' = [handlers EXCEPT ![h] =
          IF req.notification_type \notin {"email", "push"}
          THEN Reply(400, NoData)
          ELSE [IdleHandler EXCEPT !.pc = "get", !.req = req]]
    /\ UNCHANGED <<now, circuits, calls, consec, connected, queue, redis_notif,
                   redis_status, bulk, pub_count>>
    /\ UNCHANGED <<csvars, status_reply>>

\* redis.get(idempotency_key) replies (or throws): an existing record is returned
\* as it is, otherwise the user service is asked for the recipient
redis_get_replies(h, ok) ==
    /\ handlers[h].pc = "get"
    /\ LET existing == redis_notif[idempotency_key(handlers[h].req)]
       IN handlers' = [handlers EXCEPT ![h] =
             IF ~ok THEN Reply(500, NoData)
             ELSE IF existing # NoData THEN Reply(200, existing)
             ELSE [@ EXCEPT !.pc = "lookup"]]
    /\ UNCHANGED <<now, circuits, calls, consec, connected, queue, redis_notif,
                   redis_status, bulk, pub_count>>
    /\ UNCHANGED <<csvars, status_reply>>

\* the user service replies without a recipient (or not at all): 404
user_lookup_fails(h) ==
    /\ handlers[h].pc = "lookup"
    /\ handlers' = [handlers EXCEPT ![h] = Reply(404, NoData)]
    /\ UNCHANGED <<now, circuits, calls, consec, connected, queue, redis_notif,
                   redis_status, bulk, pub_count>>
    /\ UNCHANGED <<csvars, status_reply>>

\* the user service replies with the recipient: the message is built and
\* circuit_breaker.execute('rabbitmq', publish) runs up to its await
user_lookup_replies(h, accepted) ==
    /\ handlers[h].pc = "lookup"
    /\ FreeIds # {}
    /\ TotalQueued < MaxQueue
    /\ Circ.failures < MaxFailures
    /\ LET req == handlers[h].req
           message == [notification_id |-> uuidv4, request_id |-> req.request_id,
                       user_id |-> req.user_id,
                       notification_type |-> req.notification_type,
                       recipient |-> "addr", template_code |-> req.template_code,
                       retry_count |-> 0]
           cs == init_circuit(circuits, "rabbitmq", now)
           c == cs["rabbitmq"]
       IN IF ExecRejects(c, now)
          THEN /\ circuits' = cs
               /\ handlers' = [handlers EXCEPT ![h] = Reply(500, NoData)]
               /\ UNCHANGED <<queue, pub_count>>
          ELSE /\ circuits' = [cs EXCEPT !["rabbitmq"] = half_open(c)]
               /\ queue' = publish_queue(queue, connected,
                                         routing_key(req.notification_type), message)
               /\ pub_count' = IF connected
                               THEN [pub_count EXCEPT ![idempotency_key(req)] =
                                        Min(@ + 1, 2)]
                               ELSE pub_count
               /\ handlers' = [handlers EXCEPT ![h] =
                     [@ EXCEPT !.pc = "cbwait", !.nid = message.notification_id,
                               !.pub = publish_result(connected, accepted)]]
    /\ UNCHANGED <<now, calls, consec, connected, redis_notif, redis_status, bulk>>
    /\ UNCHANGED <<csvars, status_reply>>

\* the publish settled: on_success and on to redis, or on_failure and 500
publish_settles(h) ==
    /\ handlers[h].pc = "cbwait"
    /\ IF handlers[h].pub = "ok"
       THEN /\ circuits' = [circuits EXCEPT !["rabbitmq"] = on_success(Circ)]
            /\ consec' = 0
            /\ handlers' = [handlers EXCEPT ![h].pc = "setex_notif"]
       ELSE /\ circuits' = [circuits EXCEPT !["rabbitmq"] = on_failure(Circ, now)]
            /\ consec' = Min(consec + 1, failure_threshold)
            /\ handlers' = [handlers EXCEPT ![h] = Reply(500, NoData)]
    /\ UNCHANGED <<now, calls, connected, queue, redis_notif, redis_status, bulk,
                   pub_count>>
    /\ UNCHANGED <<csvars, status_reply>>

notification_data(hd) ==
    [notification_id |-> hd.nid, request_id |-> hd.req.request_id, status |-> "queued",
     notification_type |-> hd.req.notification_type]

\* redis.setex(idempotency_key, 3600, notification_data) replies (or throws)
setex_notif_replies(h, ok) ==
    /\ handlers[h].pc = "setex_notif"
    /\ IF ok
       THEN /\ redis_notif' = [redis_notif EXCEPT ![idempotency_key(handlers[h].req)] =
                                  notification_data(handlers[h])]
            /\ handlers' = [handlers EXCEPT ![h].pc = "setex_status"]
       ELSE /\ handlers' = [handlers EXCEPT ![h] = Reply(500, NoData)]
            /\ UNCHANGED redis_notif
    /\ UNCHANGED <<now, circuits, calls, consec, connected, queue, redis_status, bulk,
                   pub_count>>
    /\ UNCHANGED <<csvars, status_reply>>

\* redis.setex(`status:${request_id}`, 86400, notification_data) replies (or throws)
setex_status_replies(h, ok) ==
    /\ handlers[h].pc = "setex_status"
    /\ IF ok
       THEN /\ redis_status' = [redis_status EXCEPT ![handlers[h].req.request_id] =
                                   notification_data(handlers[h])]
            /\ handlers' = [handlers EXCEPT ![h] = Reply(202, notification_data(handlers[h]))]
       ELSE /\ handlers' = [handlers EXCEPT ![h] = Reply(500, NoData)]
            /\ UNCHANGED redis_status
    /\ UNCHANGED <<now, circuits, calls, consec, connected, queue, redis_notif, bulk,
                   pub_count>>
    /\ UNCHANGED <<csvars, status_reply>>

\* the reply has gone out
reply_sent(h) ==
    /\ handlers[h].pc = "done"
    /\ handlers' = [handlers EXCEPT ![h] = IdleHandler]
    /\ UNCHANGED <<now, circuits, calls, consec, connected, queue, redis_notif,
                   redis_status, bulk, pub_count>>
    /\ UNCHANGED <<csvars, status_reply>>

(***************************************************************************)
(* API gateway: GET /api/v1/notifications/:notification_id/status/         *)
(***************************************************************************)
\* redis.get(`status:${notification_id}`) for the path parameter, which is the
\* request_id or the notification_id of a notification: every status record is
\* stored under the request_id
redis_get_status(by, id) ==
    IF by = "request_id" THEN redis_status[id] ELSE NoData

\* the fields of the data object of a 200 reply
status_fields(status_data) ==
    {"notification_id", "status", "timestamp", "error"}

\* the handler from the request to its reply; notification_id 0 in the reply
\* is the path parameter put in for a record that holds no notification_id
status_query(by, id, ok) ==
    /\ status_reply' =
          IF ~ok THEN [NoReply EXCEPT !.code = 500, !.by = by]
          ELSE LET status_data == redis_get_status(by, id)
               IN IF status_data = NoData
                  THEN [NoReply EXCEPT !.code = 404, !.by = by]
                  ELSE [code |-> 200, by |-> by,
                        notification_id |-> status_data.notification_id,
                        status |-> status_data.status,
                        error |-> "error" \in DOMAIN status_data,
                        fields |-> status_fields(status_data)]
    /\ UNCHANGED <<now, circuits, calls, consec, connected, queue, redis_notif,
                   redis_status, handlers, bulk, pub_count>>
    /\ UNCHANGED csvars

\* submissions to the single endpoint and status queries
NextStatus ==
    \/ \E req \in Items : submit(1, req)
    \/ \E ok \in BOOLEAN : redis_get_replies(1, ok)
    \/ user_lookup_fails(1)
    \/ \E accepted \in BOOLEAN : user_lookup_replies(1, accepted)
    \/ publish_settles(1)
    \/ \E ok \in BOOLEAN : setex_notif_replies(1, ok)
    \/ \E ok \in BOOLEAN : setex_status_replies(1, ok)
    \/ reply_sent(1)
    \/ \E rid \in RequestIds, ok \in BOOLEAN : status_query("request_id", rid, ok)
    \/ \E nid \in 1..MaxIds, ok \in BOOLEAN : status_query("notification_id", nid, ok)

SpecStatus == Init /\ [][NextStatus]_vars

(***************************************************************************)
(* API gateway: POST /api/v1/notifications/bulk/                           *)
(***************************************************************************)
\* one turn of the loop up to its await: the message is built and published
bulk_publish(b, items, accepted) ==
    LET notif == Head(items)
        message == [notification_id |-> uuidv4, request_id |-> notif.request_id,
                    user_id |-> notif.user_id,
                    notification_type |-> notif.notification_type,
                    recipient |-> "none", template_code |-> notif.template_code,
                    retry_count |-> 0]
    IN /\ FreeIds # {}
       /\ TotalQueued < MaxQueue
       /\ queue' = publish_queue(queue, connected,
                                 routing_key(notif.notification_type), message)
       /\ bulk' = [b EXCEPT !.pc = "await", !.items = Tail(items),
                            !.cur = [notification_id |-> message.notification_id,
                                     request_id |-> message.request_id,
                                     status |-> "none",
                                     notification_type |-> message.notification_type],
                            !.pub = publish_result(connected, accepted)]

\* the request arrives: a body that is no non-empty array is answered 400,
\* otherwise the loop starts with the first notification
bulk_submit(items, accepted) ==
    /\ bulk.pc = "idle"
    /\ IF items = <<>>
       THEN bulk' = [IdleBulk EXCEPT !.pc = "done", !.code = 400] /\ UNCHANGED queue
       ELSE bulk_publish(bulk, items, accepted)
    /\ UNCHANGED <<now, circuits, calls, consec, connected, redis_notif, redis_status,
                   handlers, pub_count>>
    /\ UNCHANGED <<csvars, status_reply>>

\* the awaited publish settled: its result is recorded and the loop goes on
bulk_publish_settles(accepted) ==
    /\ bulk.pc = "await"
    /\ LET result == [bulk.cur EXCEPT !.status = IF bulk.pub = "ok" THEN "queued"
                                                 ELSE "failed"]
           b == [bulk EXCEPT !.results = Append(@, result), !.cur = NoData,
                             !.pub = "none"]
       IN IF bulk.items = <<>>
          THEN bulk' = [b EXCEPT !.pc = "done", !.code = 202] /\ UNCHANGED queue
          ELSE bulk_publish(b, bulk.items, accepted)
    /\ UNCHANGED <<now, circuits, calls, consec, connected, redis_notif, redis_status,
                   handlers, pub_count>>
    /\ UNCHANGED <<csvars, status_reply>>

bulk_reply_sent ==
    /\ bulk.pc = "done"
    /\ bulk' = IdleBulk
    /\ UNCHANGED <<now, circuits, calls, consec, connected, queue, redis_notif,
                   redis_status, handlers, pub_count>>
    /\ UNCHANGED <<csvars, status_reply>>

BulkBodies == {<<>>} \cup {<<x>> : x \in Items} \cup {<<x, y>> : x \in Items, y \in Items}

\* the single endpoint under concurrent requests, with the broker connection
\* coming and going
Next ==
    \/ \E h \in Handlers, req \in Items : submit(h, req)
    \/ \E h \in Handlers, ok \in BOOLEAN : redis_get_replies(h, ok)
    \/ \E h \in Handlers : user_lookup_fails(h)
    \/ \E h \in Handlers, accepted \in BOOLEAN : user_lookup_replies(h, accepted)
    \/ \E h \in Handlers : publish_settles(h)
    \/ \E h \in Handlers, ok \in BOOLEAN : setex_notif_replies(h, ok)
    \/ \E h \in Handlers, ok \in BOOLEAN : setex_status_replies(h, ok)
    \/ \E h \in Handlers : reply_sent(h)
    \/ connection_lost
    \/ reconnect
    \/ Tick

\* the bulk endpoint beside one request to the single endpoint
NextBulk ==
    \/ \E req \in Items : submit(1, req)
    \/ \E ok \in BOOLEAN : redis_get_replies(1, ok)
    \/ user_lookup_fails(1)
    \/ \E accepted \in BOOLEAN : user_lookup_replies(1, accepted)
    \/ publish_settles(1)
    \/ \E ok \in BOOLEAN : setex_notif_replies(1, ok)
    \/ \E ok \in BOOLEAN : setex_status_replies(1, ok)
    \/ reply_sent(1)
    \/ \E items \in BulkBodies, accepted \in BOOLEAN : bulk_submit(items, accepted)
    \/ \E accepted \in BOOLEAN : bulk_publish_settles(accepted)
    \/ bulk_reply_sent
    \/ connection_lost
    \/ reconnect
    \/ Tick

Spec == Init /\ [][Next]_vars

SpecBulk == Init /\ [][NextBulk]_vars

(***************************************************************************)
(* RetryService                                                            *)
(***************************************************************************)
\* message.retry_count || 0
retry_count_of(message) ==
    IF "retry_count" \in DOMAIN message THEN message.retry_count ELSE 0

\* variant: a message that has used max_retries retries gets one more
should_retry_inclusive(message) ==
    retry_count_of(message) <= max_retries

should_retry(message) ==
    retry_count_of(message) < max_retries

\* variant: the first retry waits base_delay
calculate_delay_from_zero(retry_count) ==
    base_delay * 2^(retry_count - 1)

calculate_delay(retry_count) ==
    base_delay * 2^retry_count

\* variant: the count of the message is left as it was
schedule_retry_same_count(message, t) ==
    [notification_id |-> message.notification_id,
     request_id |-> message.request_id, user_id |-> message.user_id,
     notification_type |-> message.notification_type,
     recipient |-> message.recipient, template_code |-> message.template_code,
     retry_count |-> retry_count_of(message),
     scheduled_for |-> t + calculate_delay(retry_count_of(message) + 1)]

\* schedule_retry: the message object after the call, which is also what the
\* timer's callback publishes
schedule_retry(message, t) ==
    LET retry_count == retry_count_of(message) + 1
    IN [notification_id |-> message.notification_id,
        request_id |-> message.request_id, user_id |-> message.user_id,
        notification_type |-> message.notification_type,
        recipient |-> message.recipient, template_code |-> message.template_code,
        retry_count |-> retry_count,
        scheduled_for |-> t + calculate_delay(retry_count)]

\* the messages the functions of RetryService are called with
Counted(nid, type, retry_count) ==
    [notification_id |-> nid, request_id |-> "r1", user_id |-> "u1",
     notification_type |-> type, recipient |-> "addr", template_code |-> "t1",
     retry_count |-> retry_count]
RetryArgs ==
    {Counted(nid, type, rc) : nid \in 0..MaxIds, type \in Channels, rc \in 0..MaxRetryArg}
    \cup {Uncounted(rid, type) : rid \in RequestIds, type \in Channels}

\* a caller awaits should_retry(message)
call_should_retry(message) ==
    /\ fn_call' = [op |-> "should_retry", arg |-> message, res |-> should_retry(message),
                   after |-> message]
    /\ UNCHANGED <<now, circuits, calls, consec, redis_processed, workers, timers,
                   sent_count, rabbitmq_service>>
    /\ UNCHANGED gwvars

\* a caller awaits schedule_retry(message): the message is changed, the timer is
\* set with the delay, and true is returned (one retry at a time, for the
\* messages of other publishers)
call_schedule_retry(message) ==
    /\ timers = <<>>
    /\ TotalQueued = 0
    /\ message.notification_id = 0
    /\ LET after == schedule_retry(message, now)
       IN /\ fn_call' = [op |-> "schedule_retry", arg |-> message, res |-> TRUE,
                         after |-> after, at |-> now,
                         delay |-> calculate_delay(after.retry_count)]
          /\ timers' = Append(timers, [msg |-> after, by |-> "push"])
    /\ UNCHANGED <<now, circuits, calls, consec, redis_processed, workers, sent_count,
                   rabbitmq_service>>
    /\ UNCHANGED gwvars

\* publish of a consumer service's RabbitMQService: throws when not connected,
\* and channel.publish throws on a channel that has been closed
can_publish(service) ==
    service.connected /\ service.channel = "open"

\* variant: the timer stays set after its callback has published the message
timer_fires_again(i) ==
    /\ i \in 1..Len(timers)
    /\ can_publish(rabbitmq_service[timers[i].by])
    /\ TotalQueued <= MaxBacklog
    /\ queue' = [queue EXCEPT !["email"] = Append(@, timers[i].msg)]
    /\ UNCHANGED <<now, circuits, calls, consec, connected, redis_notif, redis_status,
                   handlers, bulk, pub_count>>
    /\ UNCHANGED <<redis_processed, workers, timers, sent_count, fn_call,
                   rabbitmq_service, status_reply>>

\* the callback of schedule_retry's timer: the message is published again
timer_fires(i) ==
    /\ i \in 1..Len(timers)
    /\ queue' = IF can_publish(rabbitmq_service[timers[i].by])
                THEN [queue EXCEPT !["email"] = Append(@, timers[i].msg)]
                ELSE queue
    /\ timers' = SubSeq(timers, 1, i - 1) \o SubSeq(timers, i + 1, Len(timers))
    /\ UNCHANGED <<now, circuits, calls, consec, connected, redis_notif, redis_status,
                   handlers, bulk, pub_count>>
    /\ UNCHANGED <<redis_processed, workers, sent_count, fn_call, rabbitmq_service, status_reply>>

\* variant: the callback runs without waiting for the delay
timer_fires_early(i) ==
    timer_fires(i)

\* the timer of schedule_retry under the clock: setTimeout runs the callback
\* when the delay has passed.  (Where the clock stands still, as it does for the
\* consumers, timer_fires is a timer whose delay has passed.)
timer_fires_due(i) ==
    /\ i \in 1..Len(timers)
    /\ now >= timers[i].msg.scheduled_for
    /\ timer_fires(i)

NextRetry ==
    \/ \E message \in RetryArgs : call_should_retry(message)
    \/ \E message \in RetryArgs : call_schedule_retry(message)
    \/ \E i \in 1..MaxTimers : timer_fires_due(i)
    \/ Tick

SpecRetry == Init /\ [][NextRetry]_vars

(***************************************************************************)
(* The consumers: RabbitMQService.consume and the handlers that the email  *)
(* service and the push service pass to it.  The consumer of a queue is    *)
(* named by the queue's routing key.                                       *)
(***************************************************************************)
\* JSON.parse(msg.content.toString()) returns
parses(body) ==
    body # Garbage

\* the first statement of the handler, message.request_id, does not throw
readable(message) ==
    message # NullBody

\* only the email service keeps the status record up to date
writes_status(ch) ==
    ch = "email"

\* how the work on a message ended, from what was done for it
outcome(w, success) ==
    IF ~w.invoked THEN "unparseable"
    ELSE IF ~readable(w.msg) THEN "threw"
    ELSE IF w.consulted THEN (IF success THEN "retrying" ELSE "failed")
    ELSE IF w.sent THEN "sent"
    ELSE "discarded"

\* variant: a handler that returned false or threw leaves the message unanswered
settle_no_nack(ch, w, success) ==
    [IdleWorker EXCEPT !.answer = IF success THEN "ack" ELSE "none",
                       !.answers = IF success THEN w.answers + 1 ELSE w.answers,
                       !.outcome = outcome(w, success)]

\* consume: the handler returned success (ack when true, nack without requeue
\* when false) or threw (nack without requeue).  On a channel that has been
\* closed channel.ack and channel.nack throw: the ack is caught and answered
\* with a nack that throws as well, and no answer reaches the broker
settle(ch, w, success) ==
    IF rabbitmq_service[ch].channel = "open"
    THEN [IdleWorker EXCEPT !.answer = IF success THEN "ack" ELSE "nack",
                            !.answers = w.answers + 1, !.outcome = outcome(w, success)]
    ELSE [IdleWorker EXCEPT !.answer = "threw", !.outcome = outcome(w, success)]

\* the catch block of the handler, up to its await (email) or its return (push)
catch_block(ch, w, t) ==
    LET retry == should_retry(w.msg)
        c == [w EXCEPT !.consulted = TRUE,
                       !.msg = IF retry THEN schedule_retry(w.msg, t) ELSE w.msg,
                       !.scheduled = IF retry THEN @ + 1 ELSE @]
    IN IF writes_status(ch)
       THEN [c EXCEPT !.pc = "status", !.st = IF retry THEN "retrying" ELSE "failed",
                      !.ret = retry]
       ELSE settle(ch, c, retry)

\* the timers after the catch block: schedule_retry has set one when retrying
catch_timers(ch, w, ts, t) ==
    IF should_retry(w.msg) THEN Append(ts, [msg |-> schedule_retry(w.msg, t), by |-> ch])
    ELSE ts

CanCatch(w) ==
    should_retry(w.msg) => Len(timers) < MaxTimers

\* update_status: the record that replaces the one under status:<request_id>
update_status(request_id, status, message) ==
    CASE status = "sent" ->
            [notification_id |-> 0, request_id |-> request_id, status |-> "sent",
             notification_type |-> "none"]
      [] status = "retrying" ->
            [notification_id |-> 0, request_id |-> request_id, status |-> "retrying",
             notification_type |-> "none", retry_count |-> message.retry_count + 1,
             last_error |-> TRUE]
      [] OTHER ->
            [notification_id |-> 0, request_id |-> request_id, status |-> "failed",
             notification_type |-> "none", retry_count |-> retry_count_of(message),
             error |-> TRUE]

\* variant: a body that does not parse is dropped without an answer
deliver_silent(ch) ==
    /\ rabbitmq_service[ch].consuming
    /\ workers[ch].pc = "idle"
    /\ queue[ch] # <<>>
    /\ LET body == Head(queue[ch])
           w == [IdleWorker EXCEPT !.msg = body]
       IN /\ queue' = [queue EXCEPT ![ch] = Tail(@)]
          /\ workers' = [workers EXCEPT ![ch] =
                IF ~parses(body) THEN IdleWorker
                ELSE IF ~readable(body) THEN settle(ch, [w EXCEPT !.invoked = TRUE], FALSE)
                ELSE [w EXCEPT !.pc = "get", !.invoked = TRUE,
                               !.marked = redis_processed[body.request_id]]]
    /\ UNCHANGED <<now, circuits, calls, consec, connected, redis_notif, redis_status,
                   handlers, bulk, pub_count>>
    /\ UNCHANGED <<redis_processed, timers, sent_count, fn_call, rabbitmq_service, status_reply>>

\* the broker hands the next message of the queue to the consumer's callback:
\* the body is parsed and the handler runs up to its first await, redis.get
deliver(ch) ==
    /\ rabbitmq_service[ch].consuming
    /\ workers[ch].pc = "idle"
    /\ queue[ch] # <<>>
    /\ LET body == Head(queue[ch])
           w == [IdleWorker EXCEPT !.msg = body]
       IN /\ queue' = [queue EXCEPT ![ch] = Tail(@)]
          /\ workers' = [workers EXCEPT ![ch] =
                IF ~parses(body) THEN settle(ch, w, FALSE)
                ELSE IF ~readable(body) THEN settle(ch, [w EXCEPT !.invoked = TRUE], FALSE)
                ELSE [w EXCEPT !.pc = "get", !.invoked = TRUE,
                               !.marked = redis_processed[body.request_id]]]
    /\ UNCHANGED <<now, circuits, calls, consec, connected, redis_notif, redis_status,
                   handlers, bulk, pub_count>>
    /\ UNCHANGED <<redis_processed, timers, sent_count, fn_call, rabbitmq_service, status_reply>>

\* variant: the processed marker is read and not looked at
processed_ignored(ch, ok) ==
    /\ workers[ch].pc = "get"
    /\ LET w == workers[ch]
       IN IF ~ok
          THEN /\ CanCatch(w)
               /\ workers' = [workers EXCEPT ![ch] = catch_block(ch, w, now)]
               /\ timers' = catch_timers(ch, w, timers, now)
          ELSE /\ workers' = [workers EXCEPT ![ch] =
                     [w EXCEPT !.pc = "template", !.rendered = TRUE]]
               /\ UNCHANGED timers
    /\ UNCHANGED <<now, circuits, calls, consec, connected, queue, redis_notif,
                   redis_status, handlers, bulk, pub_count>>
    /\ UNCHANGED <<redis_processed, sent_count, fn_call, rabbitmq_service, status_reply>>

\* redis.get(`processed:${request_id}`) replies (or throws)
processed_replies(ch, ok) ==
    /\ workers[ch].pc = "get"
    /\ LET w == workers[ch]
       IN IF ~ok
          THEN /\ CanCatch(w)
               /\ workers' = [workers EXCEPT ![ch] = catch_block(ch, w, now)]
               /\ timers' = catch_timers(ch, w, timers, now)
          ELSE /\ workers' = [workers EXCEPT ![ch] =
                     IF redis_processed[w.msg.request_id] THEN settle(ch, w, TRUE)
                     ELSE [w EXCEPT !.pc = "template", !.rendered = TRUE]]
               /\ UNCHANGED timers
    /\ UNCHANGED <<now, circuits, calls, consec, connected, queue, redis_notif,
                   redis_status, handlers, bulk, pub_count>>
    /\ UNCHANGED <<redis_processed, sent_count, fn_call, rabbitmq_service, status_reply>>

\* get_template replies and render returns (or one of them throws, or there is
\* no such template): on success the delivery is started
template_replies(ch, ok) ==
    /\ workers[ch].pc = "template"
    /\ LET w == workers[ch]
       IN IF ~ok
          THEN /\ CanCatch(w)
               /\ workers' = [workers EXCEPT ![ch] = catch_block(ch, w, now)]
               /\ timers' = catch_timers(ch, w, timers, now)
          ELSE /\ workers' = [workers EXCEPT ![ch] = [w EXCEPT !.pc = "send",
                                                             !.tried = TRUE]]
               /\ UNCHANGED timers
    /\ UNCHANGED <<now, circuits, calls, consec, connected, queue, redis_notif,
                   redis_status, handlers, bulk, pub_count>>
    /\ UNCHANGED <<redis_processed, sent_count, fn_call, rabbitmq_service, status_reply>>

\* send_email / push_service.send replies (or throws): after a delivery the
\* processed marker is written
send_replies(ch, ok) ==
    /\ workers[ch].pc = "send"
    /\ LET w == workers[ch]
       IN IF ~ok
          THEN /\ CanCatch(w)
               /\ workers' = [workers EXCEPT ![ch] = catch_block(ch, w, now)]
               /\ timers' = catch_timers(ch, w, timers, now)
               /\ UNCHANGED sent_count
          ELSE /\ workers' = [workers EXCEPT ![ch] = [w EXCEPT !.pc = "mark",
                                                             !.sent = TRUE]]
               /\ sent_count' = [sent_count EXCEPT ![w.msg.request_id] = Min(@ + 1, 2)]
               /\ UNCHANGED timers
    /\ UNCHANGED <<now, circuits, calls, consec, connected, queue, redis_notif,
                   redis_status, handlers, bulk, pub_count>>
    /\ UNCHANGED <<redis_processed, fn_call, rabbitmq_service, status_reply>>

\* redis.setex(`processed:${request_id}`, 86400, 'true') replies (or throws)
mark_replies(ch, ok) ==
    /\ workers[ch].pc = "mark"
    /\ LET w == workers[ch]
       IN IF ~ok
          THEN /\ CanCatch(w)
               /\ workers' = [workers EXCEPT ![ch] = catch_block(ch, w, now)]
               /\ timers' = catch_timers(ch, w, timers, now)
               /\ UNCHANGED redis_processed
          ELSE /\ redis_processed' = [redis_processed EXCEPT ![w.msg.request_id] = TRUE]
               /\ workers' = [workers EXCEPT ![ch] =
                     IF writes_status(ch)
                     THEN [w EXCEPT !.pc = "status", !.st = "sent", !.ret = TRUE]
                     ELSE settle(ch, w, TRUE)]
               /\ UNCHANGED timers
    /\ UNCHANGED <<now, circuits, calls, consec, connected, queue, redis_notif,
                   redis_status, handlers, bulk, pub_count>>
    /\ UNCHANGED <<sent_count, fn_call, rabbitmq_service, status_reply>>

\* the redis.setex of update_status replies, or throws and is only logged; the
\* handler returns and the callback answers the broker
status_replies(ch, ok) ==
    /\ workers[ch].pc = "status"
    /\ LET w == workers[ch]
       IN /\ redis_status' = IF ok
                             THEN [redis_status EXCEPT ![w.msg.request_id] =
                                      update_status(w.msg.request_id, w.st, w.msg)]
                             ELSE redis_status
          /\ workers' = [workers EXCEPT ![ch] =
                settle(ch, [w EXCEPT !.wrote = IF ok THEN w.st ELSE "none"], w.ret)]
    /\ UNCHANGED <<now, circuits, calls, consec, connected, queue, redis_notif,
                   handlers, bulk, pub_count>>
    /\ UNCHANGED <<redis_processed, timers, sent_count, fn_call, rabbitmq_service, status_reply>>

\* another publisher puts a body on a queue (while fewer than MaxBacklog
\* messages wait on the queues and in the timers)
foreign_publish(rk, body) ==
    /\ TotalQueued + Len(timers) < MaxBacklog
    /\ queue' = [queue EXCEPT ![rk] = Append(@, body)]
    /\ UNCHANGED <<now, circuits, calls, consec, connected, redis_notif, redis_status,
                   handlers, bulk, pub_count>>
    /\ UNCHANGED <<csvars, status_reply>>

\* the two consumers and the retry timers, fed by other publishers
NextConsumer ==
    \/ \E rk \in Channels : \E body \in ForeignBodies(rk) : foreign_publish(rk, body)
    \/ \E ch \in Channels : deliver(ch)
    \/ \E ch \in Channels, ok \in BOOLEAN : processed_replies(ch, ok)
    \/ \E ch \in Channels, ok \in BOOLEAN : template_replies(ch, ok)
    \/ \E ch \in Channels, ok \in BOOLEAN : send_replies(ch, ok)
    \/ \E ch \in Channels, ok \in BOOLEAN : mark_replies(ch, ok)
    \/ \E ch \in Channels, ok \in BOOLEAN : status_replies(ch, ok)
    \/ \E i \in 1..MaxTimers : timer_fires(i)

SpecConsumer == Init /\ [][NextConsumer]_vars

\* the email consumer alone, fed by other publishers
NextEmail ==
    \/ \E body \in ForeignBodies("email") : foreign_publish("email", body)
    \/ deliver("email")
    \/ \E ok \in BOOLEAN : processed_replies("email", ok)
    \/ \E ok \in BOOLEAN : template_replies("email", ok)
    \/ \E ok \in BOOLEAN : send_replies("email", ok)
    \/ \E ok \in BOOLEAN : mark_replies("email", ok)
    \/ \E ok \in BOOLEAN : status_replies("email", ok)
    \/ \E i \in 1..MaxTimers : timer_fires(i)

\* the push consumer alone, fed by other publishers
NextPush ==
    \/ \E body \in ForeignBodies("push") : foreign_publish("push", body)
    \/ \E rid \in RequestIds : foreign_publish("push", Exhausted(rid, "push"))
    \/ deliver("push")
    \/ \E ok \in BOOLEAN : processed_replies("push", ok)
    \/ \E ok \in BOOLEAN : template_replies("push", ok)
    \/ \E ok \in BOOLEAN : send_replies("push", ok)
    \/ \E ok \in BOOLEAN : mark_replies("push", ok)
    \/ \E i \in 1..MaxTimers : timer_fires(i)

SpecEmail == Init /\ [][NextEmail]_vars

SpecPush == Init /\ [][NextPush]_vars

\* every call the email handler awaits replies or throws, and every timer fires
SpecEmailFair ==
    /\ SpecEmail
    /\ WF_vars(deliver("email"))
    /\ WF_vars(\E ok \in BOOLEAN : processed_replies("email", ok))
    /\ WF_vars(\E ok \in BOOLEAN : template_replies("email", ok))
    /\ WF_vars(\E ok \in BOOLEAN : send_replies("email", ok))
    /\ WF_vars(\E ok \in BOOLEAN : mark_replies("email", ok))
    /\ WF_vars(\E ok \in BOOLEAN : status_replies("email", ok))
    /\ WF_vars(\E i \in 1..MaxTimers : timer_fires(i))

\* the email consumer, and status queries to the gateway
NextEmailStatus ==
    \/ NextEmail
    \/ \E rid \in RequestIds, ok \in BOOLEAN : status_query("request_id", rid, ok)
    \/ \E nid \in 1..MaxIds, ok \in BOOLEAN : status_query("notification_id", nid, ok)

SpecEmailStatus == Init /\ [][NextEmailStatus]_vars

\* the connection of a consumer service closes (the broker or the network ends
\* it): the channel with its consumer is gone, and the 'close' handler sets
\* connected = false and schedules connect() (taken while no message is in work)
service_connection_closed(ch) ==
    /\ rabbitmq_service[ch].running
    /\ rabbitmq_service[ch].connected
    /\ rabbitmq_service[ch].close # "channel"
    /\ workers[ch].pc = "idle"
    /\ rabbitmq_service' = [rabbitmq_service EXCEPT ![ch] =
          [@ EXCEPT !.connected = FALSE, !.consuming = FALSE, !.channel = "closed",
                    !.reconnect = @ + 1]]
    /\ UNCHANGED <<now, circuits, calls, consec, redis_processed, workers, timers,
                   sent_count, fn_call>>
    /\ UNCHANGED gwvars

\* a scheduled connect() runs and succeeds: a new channel is created and
\* connected = true; consume is not called again
service_reconnects(ch) ==
    /\ rabbitmq_service[ch].running
    /\ rabbitmq_service[ch].reconnect > 0
    /\ rabbitmq_service' = [rabbitmq_service EXCEPT ![ch] =
          [@ EXCEPT !.connected = TRUE, !.channel = "open", !.reconnect = @ - 1]]
    /\ UNCHANGED <<now, circuits, calls, consec, redis_processed, workers, timers,
                   sent_count, fn_call>>
    /\ UNCHANGED gwvars

\* a scheduled connect() runs and fails (the broker is not reachable): the catch
\* block schedules the next connect() and throws again.  The timer's callback
\* returns the rejected promise to nobody; fatal: the unhandled rejection ends
\* the process (the default of Node.js 15 and later) with all its timers
service_reconnect_fails(ch, fatal) ==
    /\ rabbitmq_service[ch].running
    /\ rabbitmq_service[ch].reconnect > 0
    /\ ~rabbitmq_service[ch].connected
    /\ rabbitmq_service' = [rabbitmq_service EXCEPT ![ch] =
          IF fatal THEN [@ EXCEPT !.running = FALSE, !.reconnect = 0] ELSE @]
    /\ UNCHANGED <<now, circuits, calls, consec, redis_processed, workers, timers,
                   sent_count, fn_call>>
    /\ UNCHANGED gwvars

\* close() up to its first await: channel.close() is called, after which the
\* channel takes no ack, nack or publish, and its consumer is gone
service_close(ch) ==
    /\ rabbitmq_service[ch].running
    /\ rabbitmq_service[ch].close = "no"
    /\ rabbitmq_service[ch].channel = "open"
    /\ rabbitmq_service' = [rabbitmq_service EXCEPT ![ch] =
          [@ EXCEPT !.channel = "closed", !.consuming = FALSE, !.close = "channel"]]
    /\ UNCHANGED <<now, circuits, calls, consec, redis_processed, workers, timers,
                   sent_count, fn_call>>
    /\ UNCHANGED gwvars

\* the rest of close(): connection.close() is awaited; the connection emits
\* 'close', whose handler sets connected = false and schedules connect(); then
\* close() sets connected = false and returns
service_close_returns(ch) ==
    /\ rabbitmq_service[ch].running
    /\ rabbitmq_service[ch].close = "channel"
    /\ rabbitmq_service' = [rabbitmq_service EXCEPT ![ch] =
          [@ EXCEPT !.connected = FALSE, !.reconnect = @ + 1, !.close = "done"]]
    /\ UNCHANGED <<now, circuits, calls, consec, redis_processed, workers, timers,
                   sent_count, fn_call>>
    /\ UNCHANGED gwvars

\* the email consumer with its broker connection going and coming back
NextEmailLossy ==
    \/ NextEmail
    \/ service_connection_closed("email")
    \/ service_reconnects("email")

SpecEmailLossy == Init /\ [][NextEmailLossy]_vars

\* as SpecEmailFair, and a closed connection is connected again
SpecEmailLossyFair ==
    /\ SpecEmailLossy
    /\ WF_vars(deliver("email"))
    /\ WF_vars(\E ok \in BOOLEAN : processed_replies("email", ok))
    /\ WF_vars(\E ok \in BOOLEAN : template_replies("email", ok))
    /\ WF_vars(\E ok \in BOOLEAN : send_replies("email", ok))
    /\ WF_vars(\E ok \in BOOLEAN : mark_replies("email", ok))
    /\ WF_vars(\E ok \in BOOLEAN : status_replies("email", ok))
    /\ WF_vars(\E i \in 1..MaxTimers : timer_fires(i))
    /\ WF_vars(service_reconnects("email"))

\* the email service is shut down while it works: the onClose hook calls close()
NextShutdown ==
    \/ NextEmail
    \/ service_close("email")
    \/ service_close_returns("email")
    \/ service_reconnects("email")

SpecShutdown == Init /\ [][NextShutdown]_vars

\* the broker connections of the gateway and of the two consumer services:
\* closed by the broker or by close(), and the connect() calls scheduled after
\* that
NextConnection ==
    \/ connection_lost
    \/ reconnect
    \/ \E ch \in Channels : service_connection_closed(ch)
    \/ \E ch \in Channels : service_reconnects(ch)
    \/ \E ch \in Channels, fatal \in BOOLEAN : service_reconnect_fails(ch, fatal)
    \/ \E ch \in Channels : service_close(ch)
    \/ \E ch \in Channels : service_close_returns(ch)

SpecConnection == Init /\ [][NextConnection]_vars

\* email notifications from the gateway's submit to the email consumer
EmailItems == {req \in Items : req.notification_type = "email"}

NextDelivery ==
    \/ \E req \in EmailItems : submit(1, req)
    \/ \E ok \in BOOLEAN : redis_get_replies(1, ok)
    \/ user_lookup_fails(1)
    \/ user_lookup_replies(1, TRUE)
    \/ publish_settles(1)
    \/ \E ok \in BOOLEAN : setex_notif_replies(1, ok)
    \/ \E ok \in BOOLEAN : setex_status_replies(1, ok)
    \/ reply_sent(1)
    \/ deliver("email")
    \/ \E ok \in BOOLEAN : processed_replies("email", ok)
    \/ \E ok \in BOOLEAN : template_replies("email", ok)
    \/ \E ok \in BOOLEAN : send_replies("email", ok)
    \/ \E ok \in BOOLEAN : mark_replies("email", ok)
    \/ \E ok \in BOOLEAN : status_replies("email", ok)
    \/ \E i \in 1..MaxTimers : timer_fires(i)

SpecDelivery == Init /\ [][NextDelivery]_vars

\* as NextDelivery with the gateway's own calls succeeding: the notifications it
\* accepts, and what the email consumer and the timers do with them
NextLifecycle ==
    \/ \E req \in EmailItems : submit(1, req)
    \/ redis_get_replies(1, TRUE)
    \/ user_lookup_replies(1, TRUE)
    \/ publish_settles(1)
    \/ setex_notif_replies(1, TRUE)
    \/ setex_status_replies(1, TRUE)
    \/ reply_sent(1)
    \/ deliver("email")
    \/ \E ok \in BOOLEAN : processed_replies("email", ok)
    \/ \E ok \in BOOLEAN : template_replies("email", ok)
    \/ \E ok \in BOOLEAN : send_replies("email", ok)
    \/ \E ok \in BOOLEAN : mark_replies("email", ok)
    \/ \E ok \in BOOLEAN : status_replies("email", ok)
    \/ \E i \in 1..MaxTimers : timer_fires(i)

SpecLifecycle == Init /\ [][NextLifecycle]_vars

\* notifications of both channels from the gateway's submit (its own calls
\* succeeding) to the two consumers: with one user, one template and one
\* request_id, the email and the push submission have different idempotency
\* keys and the same request_id
ChannelItems == {req \in Items : req.notification_type \in Channels}

NextShared ==
    \/ \E req \in ChannelItems : submit(1, req)
    \/ redis_get_replies(1, TRUE)
    \/ user_lookup_replies(1, TRUE)
    \/ publish_settles(1)
    \/ setex_notif_replies(1, TRUE)
    \/ setex_status_replies(1, TRUE)
    \/ reply_sent(1)
    \/ \E ch \in Channels : deliver(ch)
    \/ \E ch \in Channels, ok \in BOOLEAN : processed_replies(ch, ok)
    \/ \E ch \in Channels, ok \in BOOLEAN : template_replies(ch, ok)
    \/ \E ch \in Channels, ok \in BOOLEAN : send_replies(ch, ok)
    \/ \E ch \in Channels, ok \in BOOLEAN : mark_replies(ch, ok)
    \/ \E ch \in Channels, ok \in BOOLEAN : status_replies(ch, ok)
    \/ \E i \in 1..MaxTimers : timer_fires(i)

SpecShared == Init /\ [][NextShared]_vars

(***************************************************************************)
(* Steps of a guarded call, as seen from outside.                          *)
(***************************************************************************)
\* call k entered execute in this step
Entered(k) == calls[k].pc = "idle" /\ calls'[k].pc # "idle"
\* call k completed with a failure (fn rejected, or the timer fired) in this step
Failed(k) == calls[k].pc = "inflight" /\ calls'[k].res \in FailureResults
\* call k completed successfully in this step
Succeeded(k) == calls[k].pc = "inflight" /\ calls'[k].res = "ok"
\* the timer of call k fired in this step, before fn settled
TimedOut(k) == calls[k].pc = "inflight" /\ calls'[k].pc = "late"
\* the function of the timed-out call k settled in this step
SettledLate(k) == calls[k].pc = "late" /\ calls'[k].pc = "done"

(***************************************************************************)
(* C2: counting from a CLOSED circuit with no failure, the call that       *)
(* completes the failure_threshold-th consecutive failure (no success      *)
(* completing in between) opens the circuit with next_attempt = time of    *)
(* that failure + reset_timeout; with fewer consecutive failures the       *)
(* circuit is still CLOSED.                                                *)
(***************************************************************************)
C2_OpensAtThreshold ==
    [][\A k \in Calls : (Failed(k) /\ Circ.state = "CLOSED") =>
          IF consec' >= failure_threshold
          THEN Circ'.state = "OPEN" /\ Circ'.next_attempt = now + reset_timeout
          ELSE Circ'.state = "CLOSED"]_vars

C2_Witness ==
    /\ Circ.state = "OPEN"
    /\ Circ.failures = failure_threshold
    /\ consec = failure_threshold
    /\ Circ.next_attempt = now + reset_timeout
    /\ \E k \in Calls : calls[k].pc = "done" /\ calls[k].res = "error"
                        /\ calls[k].gate = "CLOSED"

(***************************************************************************)
(* C3: a call entering execute while the circuit is OPEN is rejected       *)
(* before next_attempt (fn is not invoked, the caller gets the error or    *)
(* the fallback's result, the circuit is unchanged); at or after           *)
(* next_attempt it moves the circuit to HALF_OPEN and fn is invoked.       *)
(***************************************************************************)
C3_OpenRejects ==
    [][\A k \in Calls : (Entered(k) /\ Circ.state = "OPEN") =>
          IF now < Circ.next_attempt
          THEN /\ calls'[k].pc = "done"
               /\ calls'[k].res = (IF calls'[k].fb THEN "fallback" ELSE "err_open")
               /\ circuits' = circuits
          ELSE /\ calls'[k].pc = "inflight"
               /\ Circ'.state = "HALF_OPEN"]_vars

C3_Witness ==
    /\ Circ.state = "HALF_OPEN"
    /\ \E k, j \in Calls :
          /\ calls[k].pc = "done" /\ calls[k].res = "err_open"
          /\ calls[j].pc = "inflight" /\ calls[j].gate = "HALF_OPEN"

(***************************************************************************)
(* C4 (as claimed): a call that fails while the circuit is HALF_OPEN       *)
(* leaves it OPEN with next_attempt = failure time + reset_timeout, under  *)
(* every interleaving of concurrent calls.                                 *)
(***************************************************************************)
C4_HalfOpenFailureReopens ==
    [][\A k \in Calls : (Failed(k) /\ Circ.state = "HALF_OPEN") =>
          Circ'.state = "OPEN" /\ Circ'.next_attempt = now + reset_timeout]_vars

(***************************************************************************)
(* C5 (as claimed): while the circuit is HALF_OPEN at most one call that   *)
(* was let through in HALF_OPEN has its function in flight.                *)
(***************************************************************************)
C5_OneProbeInHalfOpen ==
    Circ.state = "HALF_OPEN" =>
        Cardinality({k \in Calls : calls[k].pc = "inflight"
                                   /\ calls[k].gate = "HALF_OPEN"}) <= 1

(***************************************************************************)
(* C6: a call that succeeds while the circuit is HALF_OPEN adds one to the *)
(* success count; when the count reaches success_threshold the circuit is  *)
(* CLOSED with both counters 0, otherwise it stays HALF_OPEN.              *)
(***************************************************************************)
C6_HalfOpenSuccess ==
    [][\A k \in Calls : (Succeeded(k) /\ Circ.state = "HALF_OPEN") =>
          IF Circ.successes + 1 >= success_threshold
          THEN Circ'.state = "CLOSED" /\ Circ'.failures = 0 /\ Circ'.successes = 0
          ELSE Circ'.state = "HALF_OPEN" /\ Circ'.successes = Circ.successes + 1]_vars

C6_Witness ==
    /\ Circ.state = "CLOSED" /\ Circ.failures = 0 /\ Circ.successes = 0
    /\ \E k, j \in Calls :
          /\ k # j
          /\ calls[k].pc = "done" /\ calls[k].res = "ok" /\ calls[k].gate = "HALF_OPEN"
          /\ calls[j].pc = "done" /\ calls[j].res = "ok" /\ calls[j].gate = "HALF_OPEN"

(***************************************************************************)
(* C7: a success while CLOSED resets the failure count to 0, and a CLOSED  *)
(* circuit opens only on the failure_threshold-th failure completed        *)
(* without a success completing in between.                                *)
(***************************************************************************)
C7_ClosedSuccessResets ==
    [][/\ \A k \in Calls : (Succeeded(k) /\ Circ.state = "CLOSED") =>
              Circ'.state = "CLOSED" /\ Circ'.failures = 0
       /\ (Circ.state = "CLOSED" /\ Circ'.state = "OPEN") =>
              consec' >= failure_threshold]_vars

C7_Witness ==
    /\ Circ.state = "CLOSED" /\ Circ.failures = 0 /\ consec = 0
    /\ \E k, j \in Calls :
          /\ calls[k].pc = "done" /\ calls[k].res = "ok" /\ calls[k].gate = "CLOSED"
          /\ calls[j].pc = "done" /\ calls[j].res = "error" /\ calls[j].gate = "CLOSED"

(***************************************************************************)
(* C8 (as claimed): when the timer of a guarded call fires before its      *)
(* function settled, the caller gets an error and the circuit counts       *)
(* exactly one failure; the late settling of the function changes neither  *)
(* the circuit nor the result.                                             *)
(***************************************************************************)
C8_TimeoutIsError ==
    [][\A k \in Calls :
          /\ TimedOut(k) => /\ calls'[k].res = "timeout_error"
                            /\ Circ'.failures = Circ.failures + 1
          /\ SettledLate(k) => circuits' = circuits /\ calls'[k].res = calls[k].res]_vars

(***************************************************************************)
(* C8 (amended): as claimed, except that a caller who supplied a fallback  *)
(* gets the fallback's result instead of the timeout error.                *)
(***************************************************************************)
C8_TimeoutCountsOnce ==
    [][\A k \in Calls :
          /\ TimedOut(k) => /\ calls'[k].res = (IF calls[k].fb THEN "fallback"
                                                ELSE "timeout_error")
                            /\ Circ'.failures = Circ.failures + 1
          /\ SettledLate(k) => circuits' = circuits /\ calls'[k].res = calls[k].res]_vars

C8_Witness ==
    \E k \in Calls : /\ calls[k].pc = "done" /\ calls[k].res = "timeout_error"
                     /\ Circ.failures >= 1

(***************************************************************************)
(* C1 (as claimed): whatever the interleaving of the submissions that      *)
(* share an idempotency key, at most one message for that key is published *)
(* to the broker.                                                          *)
(***************************************************************************)
C1_OnePublishPerKey ==
    \A key \in Keys : pub_count[key] <= 1

(***************************************************************************)
(* C9 (as claimed): while the 'rabbitmq' circuit is OPEN and next_attempt  *)
(* has not come, no gateway request hands a message to the broker, and     *)
(* every failed publish of the bulk endpoint counts as a failure of the    *)
(* circuit.                                                                *)
(***************************************************************************)
C9_EveryPublishGuarded ==
    [][/\ (Circ.state = "OPEN" /\ now < Circ.next_attempt) =>
              \A rk \in Channels : Len(queue'[rk]) <= Len(queue[rk])
       /\ (bulk.pc = "await" /\ bulk.pub = "fail" /\ bulk' # bulk) =>
              Circ'.failures = Circ.failures + 1]_vars

(***************************************************************************)
(* C10 (as claimed): no message whose notification_type is neither email   *)
(* nor push is ever on a queue, and no status record is written for one.   *)
(***************************************************************************)
C10_InvalidChannelNeverEnqueued ==
    /\ \A rk \in Channels : \A i \in 1..Len(queue[rk]) :
          queue[rk][i].notification_type \in {"email", "push"}
    /\ \A rid \in RequestIds :
          redis_status[rid].notification_type \in {"email", "push", "none"}

(***************************************************************************)
(* C11 (as claimed): when the guarded publish of a request failed (the     *)
(* publish threw, the case where the broker client reports the message as  *)
(* not accepted included), the message of that request is on no queue.     *)
(***************************************************************************)
C11_FailedPublishNotEnqueued ==
    \A h \in Handlers : (handlers[h].pc = "cbwait" /\ handlers[h].pub = "fail") =>
        \A rk \in Channels : \A i \in 1..Len(queue[rk]) :
            queue[rk][i].notification_id # handlers[h].nid

(***************************************************************************)
(* C12 (as claimed): when a read or a write of the store fails in the      *)
(* submit handler and the request is answered with an error, no message of *)
(* that request is on a queue and no idempotency record of it exists.      *)
(***************************************************************************)
C12_StoreErrorLeavesNothing ==
    [][\A h \in Handlers :
          (handlers[h].pc \in {"get", "setex_notif", "setex_status"}
           /\ handlers'[h].pc = "done" /\ handlers'[h].code = 500) =>
             /\ \A rk \in Channels : \A i \in 1..Len(queue'[rk]) :
                   queue'[rk][i].notification_id # handlers[h].nid
             /\ \A key \in Keys :
                   \/ redis_notif'[key] = NoData
                   \/ redis_notif'[key].notification_id # handlers[h].nid]_vars

(***************************************************************************)
(* C13 (as claimed): a submission that finds the idempotency record of its *)
(* request while the status of the request_id is `sent` is answered with a *)
(* result whose status is `sent`.                                          *)
(***************************************************************************)
C13_ResubmitReturnsSent ==
    [][\A h \in Handlers :
          (/\ handlers[h].pc = "get" /\ handlers'[h].pc = "done"
           /\ handlers'[h].code = 200
           /\ redis_status[handlers[h].req.request_id].status = "sent") =>
             handlers'[h].data.status = "sent"]_vars

(***************************************************************************)
(* What discarding a message is: the consumer acknowledges it, and neither *)
(* rendering nor delivery was invoked for it, no retry is scheduled and no *)
(* status is written.                                                      *)
(***************************************************************************)
Discards(ch) ==
    /\ workers'[ch].pc = "idle"
    /\ workers'[ch].answer = "ack" /\ workers'[ch].answers = 1
    /\ workers'[ch].outcome = "discarded"
    /\ ~workers[ch].rendered /\ ~workers[ch].tried /\ ~workers[ch].consulted
    /\ timers' = timers
    /\ redis_status' = redis_status
    /\ sent_count' = sent_count

Ends(ch, o) ==
    /\ workers[ch].pc # "idle"
    /\ workers'[ch].pc = "idle"
    /\ workers'[ch].outcome = o

(***************************************************************************)
(* C15 (as claimed): on both channels, a message whose rendering and       *)
(* delivery succeeded is acknowledged only with the status record of its   *)
(* request_id being `sent`.                                                *)
(***************************************************************************)
C15_AckedOnlyIfSent ==
    [][\A ch \in Channels : Ends(ch, "sent") =>
          /\ workers'[ch].answer = "ack"
          /\ redis_status'[workers[ch].msg.request_id].status = "sent"]_vars

(***************************************************************************)
(* C16 (as claimed): on both channels, a message whose processing failed   *)
(* with retry_count below max_retries is acknowledged with exactly one     *)
(* retry scheduled for it and the status of its request_id being           *)
(* `retrying`.                                                             *)
(***************************************************************************)
C16_RetryingIsRecorded ==
    [][\A ch \in Channels : Ends(ch, "retrying") =>
          /\ workers'[ch].answer = "ack"
          /\ \/ workers[ch].scheduled = 1 /\ timers' = timers
             \/ workers[ch].scheduled = 0 /\ Len(timers') = Len(timers) + 1
          /\ redis_status'[workers[ch].msg.request_id].status = "retrying"]_vars

(***************************************************************************)
(* C17 (as claimed): on both channels, a message whose processing failed   *)
(* with retry_count at max_retries is negatively acknowledged with no      *)
(* retry scheduled and the status of its request_id being `failed`.        *)
(***************************************************************************)
C17_FailedIsRecorded ==
    [][\A ch \in Channels : Ends(ch, "failed") =>
          /\ workers'[ch].answer = "nack"
          /\ workers[ch].scheduled = 0 /\ timers' = timers
          /\ redis_status'[workers[ch].msg.request_id].status = "failed"]_vars

(***************************************************************************)
(* C18: a message whose body does not parse is negatively acknowledged in  *)
(* the step that receives it: the handler is not invoked, no retry is      *)
(* scheduled and no record of the store is written.                        *)
(***************************************************************************)
C18_UnparseableIsNacked ==
    [][\A ch \in Channels : (deliver(ch) /\ ~parses(Head(queue[ch]))) =>
          /\ workers'[ch].pc = "idle"
          /\ workers'[ch].answer = "nack" /\ workers'[ch].answers = 1
          /\ workers'[ch].outcome = "unparseable"
          /\ ~workers'[ch].invoked /\ ~workers'[ch].consulted
          /\ queue' = [queue EXCEPT ![ch] = Tail(@)]
          /\ timers' = timers
          /\ redis_status' = redis_status
          /\ redis_processed' = redis_processed]_vars

C18_Witness ==
    /\ workers["push"].pc = "idle"
    /\ workers["push"].outcome = "unparseable"
    /\ workers["push"].answer = "nack"
    /\ timers = <<>>
    /\ \A rid \in RequestIds : redis_status[rid] = NoData

C20_ShouldRetry ==
    fn_call.op = "should_retry" =>
        LET count == IF "retry_count" \in DOMAIN fn_call.arg
                     THEN fn_call.arg.retry_count ELSE 0
        IN /\ fn_call.res = (count < max_retries)
           /\ fn_call.after = fn_call.arg

C20_Witness ==
    /\ fn_call.op = "should_retry"
    /\ "retry_count" \in DOMAIN fn_call.arg
    /\ fn_call.arg.retry_count = max_retries
    /\ fn_call.res = FALSE

(***************************************************************************)
(* C21: for the retry that brings the retry_count of the message to n,     *)
(* schedule_retry uses the delay base_delay * 2^n and sets scheduled_for   *)
(* to the time of the call plus that delay, and the message is published   *)
(* again no earlier than scheduled_for.                                    *)
(***************************************************************************)
C21_BackoffDelay ==
    [][/\ (\E message \in RetryArgs : call_schedule_retry(message)) =>
             LET n == fn_call'.after.retry_count
             IN /\ n = retry_count_of(fn_call'.arg) + 1
                /\ fn_call'.delay = base_delay * 2^n
                /\ fn_call'.after.scheduled_for = now + base_delay * 2^n
       /\ Len(queue'["email"]) > Len(queue["email"]) =>
             now >= queue'["email"][Len(queue'["email"])].scheduled_for]_vars

C21_Witness ==
    /\ fn_call.op = "schedule_retry"
    /\ fn_call.after.retry_count = max_retries
    /\ fn_call.delay = 8000
    /\ queue["email"] = <<fn_call.after>>
    /\ now >= fn_call.at + fn_call.delay

(***************************************************************************)
(* C22 (as claimed): with max_retries = 3 and base_delay = 1000 ms, the    *)
(* retries after the first, second and third failure of a message are      *)
(* scheduled with delays of 1000 ms, 2000 ms and 4000 ms.                  *)
(***************************************************************************)
C22_DelaysFromBase ==
    (fn_call.op = "schedule_retry" /\ should_retry(fn_call.arg)) =>
        fn_call.delay = CASE retry_count_of(fn_call.arg) = 0 -> 1000
                          [] retry_count_of(fn_call.arg) = 1 -> 2000
                          [] OTHER -> 4000

(***************************************************************************)
(* C22 (amended): with max_retries = 3 and base_delay = 1000 ms, the       *)
(* retries after the first, second and third failure of a message are      *)
(* scheduled with delays of 2000 ms, 4000 ms and 8000 ms.                  *)
(***************************************************************************)
C22_DelaysDoubled ==
    (fn_call.op = "schedule_retry" /\ should_retry(fn_call.arg)) =>
        fn_call.delay = CASE retry_count_of(fn_call.arg) = 0 -> 2000
                          [] retry_count_of(fn_call.arg) = 1 -> 4000
                          [] OTHER -> 8000

C22_Witness ==
    /\ fn_call.op = "schedule_retry"
    /\ "retry_count" \in DOMAIN fn_call.arg
    /\ fn_call.arg.retry_count = 0
    /\ fn_call.delay = 2000
    /\ timers = <<[msg |-> fn_call.after, by |-> "push"]>>

(***************************************************************************)
(* The copies of messages there are: on the queues, in the retry timers    *)
(* and in the hands of the consumers.                                      *)
(***************************************************************************)
Copies ==
    UNION {{queue[rk][i] : i \in 1..Len(queue[rk])} : rk \in Channels}
    \cup {timers[i].msg : i \in 1..Len(timers)}
    \cup {workers[ch].msg : ch \in {c \in Channels : workers[c].pc # "idle"}}

(***************************************************************************)
(* C23: of the notifications accepted by the gateway, every copy of a      *)
(* message has a retry_count in 0..max_retries; a message is first         *)
(* published with retry_count 0, a retry cycle adds exactly one to it, the *)
(* timer publishes the copy with the count the cycle gave it, and the      *)
(* count of a message in work never decreases.                             *)
(***************************************************************************)
C23_RetryCountBounded ==
    [][/\ \A m \in Copies' : /\ "retry_count" \in DOMAIN m
                              /\ m.retry_count \in 0..max_retries
       /\ \A rk \in Channels :
             Len(queue'[rk]) > Len(queue[rk]) =>
                LET m == queue'[rk][Len(queue'[rk])]
                IN IF timers' = timers THEN m.retry_count = 0 ELSE m \in Copies
       /\ Len(timers') > Len(timers) =>
             \E ch \in Channels :
                /\ workers[ch].pc # "idle"
                /\ timers'[Len(timers')].msg.retry_count = workers[ch].msg.retry_count + 1
       /\ \A ch \in Channels :
             (workers[ch].pc # "idle" /\ workers'[ch].pc # "idle") =>
                workers'[ch].msg.retry_count >= workers[ch].msg.retry_count]_vars

C23_Witness ==
    /\ queue["email"] # <<>>
    /\ Head(queue["email"]).retry_count = max_retries
    /\ Head(queue["email"]).notification_id # 0
    /\ redis_status["r1"].status = "retrying"

(***************************************************************************)
(* C24 (as claimed): while no delivery of a notification has succeeded,    *)
(* its status record goes from none to queued, from queued to retrying,    *)
(* from retrying to retrying or to failed and in no other way, and once it *)
(* is failed no message is published any more.                             *)
(***************************************************************************)
C24_FailingLifecycle ==
    [][\A rid \in RequestIds : sent_count'[rid] = 0 =>
          /\ redis_status'[rid] # redis_status[rid] =>
                <<redis_status[rid].status, redis_status'[rid].status>> \in
                    {<<"none", "queued">>, <<"queued", "retrying">>,
                     <<"retrying", "retrying">>, <<"retrying", "failed">>}
          /\ redis_status[rid].status = "failed" =>
                \A rk \in Channels : Len(queue'[rk]) <= Len(queue[rk])]_vars

(***************************************************************************)
(* C25 (as claimed): the timer of a retry publishes the message with the   *)
(* routing key of the message's channel: the retry of a push notification  *)
(* goes to the push queue, the retry of an email notification to the email *)
(* queue.                                                                  *)
(***************************************************************************)
C25_RetryKeepsRoutingKey ==
    [][\A i \in 1..Len(timers) : timer_fires(i) =>
          queue' = [queue EXCEPT ![timers[i].msg.notification_type] =
                                 Append(@, timers[i].msg)]]_vars

(***************************************************************************)
(* C26 (as claimed): under fairness, a notification whose status is        *)
(* `retrying` eventually has the status `sent` or `failed`, and every      *)
(* retry timer that is set eventually results in its message being on the  *)
(* queue again, also when the broker connection is closed when the timer   *)
(* fires and is connected again later.                                     *)
(***************************************************************************)
C26_EveryRetryRepublished ==
    /\ \A rid \in RequestIds :
          (redis_status[rid].status = "retrying") ~>
              (redis_status[rid].status \in {"sent", "failed"})
    /\ \A rc \in 1..max_retries :
          (\E i \in 1..Len(timers) : timers[i].msg.retry_count = rc) ~>
              (\E j \in 1..Len(queue["email"]) :
                  /\ parses(queue["email"][j]) /\ readable(queue["email"][j])
                  /\ retry_count_of(queue["email"][j]) = rc)

(***************************************************************************)
(* C27 (as claimed): after a submission was answered 202 with a            *)
(* notification_id and a request_id, a status query with either of the two *)
(* is answered 200 with the status of the record, and a query is answered  *)
(* not-found only when there is no record of the notification.             *)
(***************************************************************************)
C27_FoundByEitherId ==
    [][/\ \A h \in Handlers : (handlers[h].pc = "done" /\ handlers[h].code = 202) =>
             LET d == handlers[h].data
             IN /\ status_query("notification_id", d.notification_id, TRUE) =>
                      /\ status_reply'.code = 200
                      /\ status_reply'.status = redis_status[d.request_id].status
                /\ status_query("request_id", d.request_id, TRUE) =>
                      /\ status_reply'.code = 200
                      /\ status_reply'.status = redis_status[d.request_id].status
       /\ \A nid \in 1..MaxIds :
             (status_query("notification_id", nid, TRUE) /\ status_reply'.code = 404) =>
                \A rid \in RequestIds : redis_status[rid].notification_id # nid
       /\ \A rid \in RequestIds :
             (status_query("request_id", rid, TRUE) /\ status_reply'.code = 404) =>
                redis_status[rid] = NoData]_vars

(***************************************************************************)
(* C28 (as claimed): a status query answered with the status `failed`      *)
(* returns the error of the last failure and the retry count the message   *)
(* reached.                                                                *)
(***************************************************************************)
C28_FailedReplyHasCount ==
    (status_reply.code = 200 /\ status_reply.status = "failed") =>
        /\ status_reply.error
        /\ "retry_count" \in status_reply.fields

(***************************************************************************)
(* C29 (as claimed): for a request whose message was published once, once *)
(* the status `sent` is written no later write replaces it, whatever the   *)
(* interleaving of the gateway's `queued` write, the consumer's writes and *)
(* the retry timers.                                                       *)
(***************************************************************************)
C29_SentIsFinal ==
    [][\A rid \in RequestIds :
          (redis_status[rid].status = "sent" /\ \A key \in Keys : pub_count'[key] <= 1) =>
             redis_status'[rid].status = "sent"]_vars

(***************************************************************************)
(* The copies of notification nid that are in a retry timer or on a queue, *)
(* and the consumers that hold one.                                        *)
(***************************************************************************)
Waiting(nid) ==
    Cardinality({i \in 1..Len(timers) : timers[i].msg.notification_id = nid})
    + Cardinality({i \in 1..Len(queue["email"]) :
                      queue["email"][i].notification_id = nid})
    + Cardinality({i \in 1..Len(queue["push"]) :
                      queue["push"][i].notification_id = nid})

Holding(nid) ==
    {ch \in Channels : workers[ch].pc # "idle" /\ workers[ch].msg.notification_id = nid}

C37_OpenIgnoresStragglers ==
    [][\A k \in Calls :
          (Circ.state = "OPEN" /\ (Failed(k) \/ Succeeded(k))) =>
             /\ Circ'.state = "OPEN"
             /\ Circ'.failures = Circ.failures
             /\ Circ'.next_attempt = Circ.next_attempt]_vars

C33_PublishedHasRecipient ==
    [][/\ \A rk \in Channels : Len(queue'[rk]) > Len(queue[rk]) =>
             queue'[rk][Len(queue'[rk])].recipient # "none"
       /\ \A h \in Handlers :
             (handlers[h].pub = "ok" /\ handlers'[h].pc = "done") =>
                redis_status'[handlers[h].req.request_id].status # "none"
       /\ (bulk.pc = "await" /\ bulk.pub = "ok" /\ bulk' # bulk) =>
             redis_status'[bulk.cur.request_id].status # "none"]_vars

(***************************************************************************)
(* C34 (as claimed): a consumer whose delivery of a message succeeded      *)
(* acknowledges the message and schedules no retry for it, also when the   *)
(* write of the processed marker or of the status fails afterwards.        *)
(***************************************************************************)
C34_DeliveredIsAcked ==
    [][\A ch \in Channels : (workers[ch].sent /\ workers'[ch] # workers[ch]) =>
          /\ timers' = timers
          /\ ~workers'[ch].consulted
          /\ workers'[ch].pc = "idle" => workers'[ch].answer = "ack"]_vars

(***************************************************************************)
(* C36 (as claimed): a status record written with the status `retrying`    *)
(* carries the retry_count of the message that is published again, which   *)
(* is at most max_retries.                                                 *)
(***************************************************************************)
C36_RetryingCount ==
    [][\A ch \in Channels :
          (workers[ch].pc = "status" /\ workers[ch].st = "retrying"
           /\ status_replies(ch, TRUE)) =>
             LET record == redis_status'[workers[ch].msg.request_id]
             IN /\ record.status = "retrying"
                /\ record.retry_count = workers[ch].msg.retry_count
                /\ record.retry_count <= max_retries]_vars

(***************************************************************************)
(* C35 (as claimed): of two accepted submissions with different            *)
(* idempotency keys and the same request_id both are delivered: no         *)
(* consumer discards the first copy of a notification (the message as the  *)
(* gateway published it, retry_count 0) as already processed, and the      *)
(* status `sent` of the request_id is not reported while a message with    *)
(* that request_id is still to be delivered.                               *)
(***************************************************************************)
C35_SameRequestIdBothDelivered ==
    [][/\ \A ch \in Channels :
             (workers[ch].msg.notification_id # 0 /\ workers[ch].msg.retry_count = 0) =>
                ~Ends(ch, "discarded")
       /\ \A rid \in RequestIds : redis_status'[rid].status = "sent" =>
             \A m \in Copies' : m.request_id # rid]_vars

(***************************************************************************)
(* C31 (as claimed): close() is called on shutdown only when no handler is *)
(* in flight, and every handler that ends sends its ack or nack on an open *)
(* channel: no answer is attempted on a closed channel and none is lost.   *)
(***************************************************************************)
C31_AnswersBeforeClose ==
    [][\A ch \in Channels :
          /\ service_close(ch) => workers[ch].pc = "idle"
          /\ (workers[ch].pc # "idle" /\ workers'[ch].pc = "idle") =>
                /\ rabbitmq_service[ch].channel = "open"
                /\ workers'[ch].answer \in {"ack", "nack"}
                /\ workers'[ch].answers = 1]_vars

(***************************************************************************)
(* C32 (as claimed): a reconnect attempt that fails in the background      *)
(* leaves the process running with a further attempt scheduled, and the    *)
(* service is never left disconnected without an attempt scheduled.        *)
(***************************************************************************)
C32_ReconnectsForever ==
    [][\A ch \in Channels :
          /\ (\E fatal \in BOOLEAN : service_reconnect_fails(ch, fatal)) =>
                /\ rabbitmq_service'[ch].running
                /\ rabbitmq_service'[ch].reconnect >= 1
          /\ (rabbitmq_service'[ch].close = "no" /\ ~rabbitmq_service'[ch].connected) =>
                rabbitmq_service'[ch].reconnect >= 1]_vars

(***************************************************************************)
(* C39 (as claimed): under fairness, if the email service, whatever        *)
(* connections it lost before, is connected from some time on, then every  *)
(* message on its queue is eventually taken from the queue and handed to   *)
(* the consumer's callback.                                                *)
(***************************************************************************)
C39_ConsumesAfterReconnect ==
    (<>[]rabbitmq_service["email"].connected) =>
        \A n \in 1..(MaxBacklog + MaxTimers) :
            (Len(queue["email"]) = n) ~> (Len(queue["email"]) < n)

(***************************************************************************)
(* C40 (as claimed): once close() has returned, the service stays          *)
(* disconnected: connected is false and no connect() is scheduled.         *)
(***************************************************************************)
C40_ClosedStaysClosed ==
    \A ch \in Channels : rabbitmq_service[ch].close = "done" =>
        /\ ~rabbitmq_service[ch].connected
        /\ rabbitmq_service[ch].reconnect = 0

=============================================================================
